---- MODULE Spec2Model ----
(***************************************************************************)
(* Model of the request/cache/retry pipeline of paprika_helpers.py:        *)
(* api_request with its pickle file cache (.cache/<md5>.pkl), the TTL      *)
(* check, the corruption recovery and the three-attempt retry loop.        *)
(* Every system call api_request makes on the cache file is one step, so   *)
(* that two calls running in different threads interleave as they can on   *)
(* a POSIX file system.                                                    *)
(***************************************************************************)
EXTENDS Integers, Sequences, FiniteSets, TLC

\* ------------------------------------------------------------------ bounds
MaxCalls == 2          \* api_request invocations in one behaviour
MaxTicks == 1          \* clock advances between steps, apart from the sleeps

\* --------------------------------------------------------- program constants
CACHE_DURATION == 300
retries == 3

\* The two threads that may call api_request.
Procs == {1, 2}

None == "None"

\* -------------------------------------------------------------- request key
\* Parameter names in the order json.dumps(sort_keys=True) puts them.
NameOrder == <<"limit", "page">>

Rank(name) == CHOOSE i \in 1..Len(NameOrder) : NameOrder[i] = name

\* A params dict is the sequence of its (name, value) items in insertion
\* order; None and {} are both the empty sequence (params or {}).
ParamsSet ==
  { <<>>,
    << <<"limit", 10>>, <<"page", 1>> >>,
    << <<"page", 1>>, <<"limit", 10>> >> }

Endpoints == {"/networks"}

Requests == [endpoint : Endpoints, params : ParamsSet]

\* The mapping a params dict denotes, whatever its insertion order.
AsMapping(params) == { params[i] : i \in 1..Len(params) }

\* Insertion of one item into an item sequence sorted by name.
RECURSIVE InsertSorted(_, _)
InsertSorted(item, s) ==
  IF s = <<>> THEN <<item>>
  ELSE IF Rank(item[1]) <= Rank(Head(s)[1]) THEN <<item>> \o s
  ELSE <<Head(s)>> \o InsertSorted(item, Tail(s))

RECURSIVE SortItems(_)
SortItems(s) == IF s = <<>> THEN <<>> ELSE InsertSorted(Head(s), SortItems(Tail(s)))

\* json.dumps without sort_keys: items in insertion order.
JsonDumpsUnsorted(params) == params

\* json.dumps(params or {}, sort_keys=True): the items ordered by name.
JsonDumps(params) == SortItems(params)

\* hashlib.md5(f"{endpoint}{json}").hexdigest(): the digest is taken as
\* injective on the hashed text, so the text itself stands for it.
CacheKey(endpoint, params) == <<endpoint, JsonDumps(params)>>

Keys == { CacheKey(r.endpoint, r.params) : r \in Requests }

\* ------------------------------------------------------------- cache files
Payloads == {"d1", "d2"}

\* pickle.dump writes the pickle of a payload in two write() calls.
Serialize(d) == << <<d, 1>>, <<d, 2>> >>

Absent == [ex |-> FALSE, bytes |-> <<>>, mtime |-> 0]

File(bytes, mtime) == [ex |-> TRUE, bytes |-> bytes, mtime |-> mtime]

\* A blob that is no pickle at all; its second component is the exception
\* pickle.load raises on it.
Junk(exc) == << <<"junk", exc>> >>

Hole == <<"hole", 0>>

IsPrefix(s, t) == Len(s) <= Len(t) /\ SubSeq(t, 1, Len(s)) = s

\* pickle.load(f): the set of outcomes on the bytes of a file.
Unpickle(bytes) ==
  IF \E d \in Payloads : bytes = Serialize(d)
    THEN { [tag |-> "data", v |-> d] : d \in {e \in Payloads : bytes = Serialize(e)} }
  ELSE IF bytes = <<>>
    THEN { [tag |-> "exc", v |-> "EOFError"] }
  ELSE IF \E d \in Payloads : IsPrefix(bytes, Serialize(d))
    THEN { [tag |-> "exc", v |-> "UnpicklingError"], [tag |-> "exc", v |-> "EOFError"] }
  ELSE IF Len(bytes) = 1 /\ bytes[1][1] = "junk"
    THEN { [tag |-> "exc", v |-> bytes[1][2]] }
  ELSE { [tag |-> "data", v |-> "mixed"],
         [tag |-> "exc", v |-> "UnpicklingError"],
         [tag |-> "exc", v |-> "UnicodeDecodeError"] }

\* except (pickle.PickleError, EOFError)
CacheExcCaught(exc) == exc \in {"UnpicklingError", "PickleError", "EOFError"}

FreshInclusive(t, mtime) == t - mtime <= CACHE_DURATION

\* cache_file.exists() and time.time() - st_mtime < CACHE_DURATION
Fresh(t, mtime) == t - mtime < CACHE_DURATION

WriteAtStart(bytes, pos, chunk) ==
  [i \in 1..(IF Len(bytes) > 1 THEN Len(bytes) ELSE 1) |->
     IF i = 1 THEN chunk ELSE bytes[i]]

\* f.write(chunk): the bytes of a file after a write of one chunk at offset
\* pos (0-based); writing past the end leaves a hole.
WriteAt(bytes, pos, chunk) ==
  [i \in 1..(IF Len(bytes) > pos + 1 THEN Len(bytes) ELSE pos + 1) |->
     IF i = pos + 1 THEN chunk
     ELSE IF i <= Len(bytes) THEN bytes[i]
     ELSE Hole]

\* ---------------------------------------------------------------- transport
Statuses == {200, 404, 500, 999}

Bodies == {"", " ", "<html>"} \cup Payloads

\* What requests.get gives: an exception of the transport, or a response.
Responses ==
  { [kind |-> "ConnectionError", status |-> 0, body |-> ""] }
  \cup [kind : {"response"}, status : Statuses, body : Bodies]

\* Response.raise_for_status(): raises HTTPError on a 4xx or 5xx status.
RaiseForStatus(status) == 400 <= status /\ status < 600

AttemptOutcomeUnparsed(resp) ==
  IF resp.kind = "ConnectionError" THEN [tag |-> "error", v |-> "ConnectionError"]
  ELSE IF resp.status >= 400 /\ RaiseForStatus(resp.status)
    THEN [tag |-> "error", v |-> "HTTPError"]
  ELSE IF resp.body \in {"", " "} THEN [tag |-> "error", v |-> "Empty response body"]
  ELSE [tag |-> "data", v |-> resp.body]

\* One pass through the try block: the parsed payload, or the description
\* of the exception the except clause catches.
AttemptOutcome(resp) ==
  IF resp.kind = "ConnectionError" THEN [tag |-> "error", v |-> "ConnectionError"]
  ELSE IF resp.status >= 400 /\ RaiseForStatus(resp.status)
    THEN [tag |-> "error", v |-> "HTTPError"]
  ELSE IF resp.body \in {"", " "} THEN [tag |-> "error", v |-> "Empty response body"]
  ELSE IF resp.body \notin Payloads THEN [tag |-> "error", v |-> "JSONDecodeError"]
  ELSE [tag |-> "data", v |-> resp.body]

KeepFirstError(old, e) == IF old = None THEN e ELSE old

\* last_error = e
SetLastError(old, e) == e

\* time.sleep((attempt + 1) * 1.0)
Backoff(attempt) == (attempt + 1) * 1

SleepsAfterEvery(attempt) == attempt < retries

\* if attempt < retries - 1: sleep and continue
SleepsAfter(attempt) == attempt < retries - 1

\* for attempt in range(retries): no iteration follows this one
LoopDone(attempt) == attempt + 1 >= retries

\* return {"error": str(last_error)}
ErrorResult(err) == [tag |-> "error", v |-> err]

\* -------------------------------------------------------------------- state
VARIABLES
  now,          \* time.time()
  ticks,        \* clock advances so far
  calls,        \* api_request invocations so far
  file,         \* Keys -> the cache file of the key
  pc,           \* where each thread is in api_request
  req,          \* the (endpoint, params) of the call
  key,          \* cache_key
  tnow,         \* the time.time() read of the cache check
  attempt,      \* loop index of the retry loop
  last_error,   \* last_error
  data,         \* data = response.json()
  wpos,         \* file offset of the writing handle
  det,          \* the open handle refers to a file unlinked meanwhile
  priv,         \* bytes of that unlinked file
  result,       \* value returned or exception raised
  sent,         \* history: transport calls of the call
  waits,        \* history: the sleeps of the call, in order
  lastOutcome,  \* history: outcome of the latest transport call
  startFile,    \* history: the cache file of the key when the call began
  seen,         \* history: the set holding what pickle.load read, and whether
                \* another call was then between its open and the end of its dump
  lastDone,     \* history: Keys -> payload of the write that finished last
  wroteReq,     \* history: Keys -> the request of that write
  failed        \* history: Keys -> the fetch of the key that returned last
                \* returned the failure result

\* The state of the other components; each stays as it starts while
\* api_request runs.
VARIABLES
  bt,           \* a batch of the async helpers: its tasks and their gather
  mon,          \* the polling loop of async_monitor_prices
  ov,           \* a run of get_market_overview
  fx            \* an application of one of the pure helpers

cachevars == <<now, ticks, calls, file, pc, req, key, tnow, attempt, last_error,
               data, wpos, det, priv, result, sent, waits, lastOutcome, startFile,
               seen, lastDone, wroteReq, failed>>

others == <<bt, mon, ov, fx>>

vars == <<cachevars, others>>

Idle == [st |-> "idle"]

\* Times by which the clock advances between steps.
TickSteps == {299, 300}

\* What .cache may hold for a key when the program starts: nothing, the
\* empty file of a write that was cut short, or a blob that is no pickle.
InitFiles == { Absent, File(<<>>, 0), File(Junk("ValueError"), 0) }

NoReq == [endpoint |-> None, params |-> <<>>]

NoKey == <<>>

Init ==
  /\ now = 0 /\ ticks = 0 /\ calls = 0
  /\ file \in [Keys -> InitFiles]
  /\ pc = [p \in Procs |-> "idle"]
  /\ req = [p \in Procs |-> NoReq]
  /\ key = [p \in Procs |-> NoKey]
  /\ tnow = [p \in Procs |-> 0]
  /\ attempt = [p \in Procs |-> 0]
  /\ last_error = [p \in Procs |-> None]
  /\ data = [p \in Procs |-> None]
  /\ wpos = [p \in Procs |-> 0]
  /\ det = [p \in Procs |-> FALSE]
  /\ priv = [p \in Procs |-> <<>>]
  /\ result = [p \in Procs |-> None]
  /\ sent = [p \in Procs |-> 0]
  /\ waits = [p \in Procs |-> <<>>]
  /\ lastOutcome = [p \in Procs |-> None]
  /\ startFile = [p \in Procs |-> Absent]
  /\ seen = [p \in Procs |-> {}]
  /\ lastDone = [k \in Keys |-> None]
  /\ wroteReq = [k \in Keys |-> NoReq]
  /\ failed = [k \in Keys |-> FALSE]
  /\ bt = Idle /\ mon = Idle /\ ov = Idle /\ fx = Idle

locals == <<attempt, last_error, data, wpos, det, priv>>
hist == <<sent, waits, lastOutcome, startFile, seen>>
world == <<now, ticks, calls>>

\* The clock advances.
Tick ==
  /\ ticks < MaxTicks
  /\ \E d \in TickSteps : now' = now + d
  /\ ticks' = ticks + 1
  /\ UNCHANGED <<calls, file, pc, req, key, tnow, result, lastDone, wroteReq, locals, hist>>
  /\ UNCHANGED others
  /\ UNCHANGED failed

\* api_request(endpoint, params) is called with a request of the set R: the
\* key is computed.
CallFrom(p, R) ==
  /\ pc[p] = "idle"
  /\ calls < MaxCalls
  /\ \E r \in R :
       /\ req' = [req EXCEPT ![p] = r]
       /\ key' = [key EXCEPT ![p] = CacheKey(r.endpoint, r.params)]
       /\ startFile' = [startFile EXCEPT ![p] = file[CacheKey(r.endpoint, r.params)]]
  /\ calls' = calls + 1
  /\ pc' = [pc EXCEPT ![p] = "exists"]
  /\ UNCHANGED <<now, ticks, file, tnow, result, lastDone, wroteReq, locals,
                 sent, waits, lastOutcome, seen>>
  /\ UNCHANGED others
  /\ UNCHANGED failed

Call(p) == CallFrom(p, Requests)

\* cache_file.exists(), then the time.time() of the age test.
Exists(p) ==
  /\ pc[p] = "exists"
  /\ pc' = [pc EXCEPT ![p] = IF file[key[p]].ex THEN "stat" ELSE "attempt"]
  /\ tnow' = [tnow EXCEPT ![p] = now]
  /\ UNCHANGED <<world, file, req, key, result, lastDone, wroteReq, locals, hist>>
  /\ UNCHANGED others
  /\ UNCHANGED failed

\* cache_file.stat().st_mtime and the comparison with CACHE_DURATION.
Stat(p) ==
  /\ pc[p] = "stat"
  /\ IF ~file[key[p]].ex
       THEN /\ pc' = [pc EXCEPT ![p] = "raised"]
            /\ result' = [result EXCEPT ![p] = [tag |-> "raised", v |-> "FileNotFoundError"]]
       ELSE /\ pc' = [pc EXCEPT ![p] =
                        IF Fresh(tnow[p], file[key[p]].mtime) THEN "open_r" ELSE "attempt"]
            /\ UNCHANGED result
  /\ UNCHANGED <<world, file, req, key, tnow, lastDone, wroteReq, locals, hist>>
  /\ UNCHANGED others
  /\ UNCHANGED failed

\* open(cache_file, 'rb')
OpenR(p) ==
  /\ pc[p] = "open_r"
  /\ IF ~file[key[p]].ex
       THEN /\ pc' = [pc EXCEPT ![p] = "raised"]
            /\ result' = [result EXCEPT ![p] = [tag |-> "raised", v |-> "FileNotFoundError"]]
       ELSE /\ pc' = [pc EXCEPT ![p] = "load"]
            /\ UNCHANGED result
  /\ det' = [det EXCEPT ![p] = FALSE]
  /\ UNCHANGED <<world, file, req, key, tnow, lastDone, wroteReq, hist,
                 attempt, last_error, data, wpos, priv>>
  /\ UNCHANGED others
  /\ UNCHANGED failed

\* Another thread has the file of p's key open for writing.
MidWrite(p) == \E q \in Procs \ {p} : pc[q] = "write" /\ key[q] = key[p] /\ ~det[q]

\* return pickle.load(f), with the except clause around it.
Load(p) ==
  /\ pc[p] = "load"
  /\ LET bytes == IF det[p] THEN priv[p] ELSE file[key[p]].bytes IN
       /\ seen' = [seen EXCEPT ![p] = {[bytes |-> bytes, midwrite |-> MidWrite(p)]}]
       /\ \E o \in Unpickle(bytes) :
            IF o.tag = "data"
              THEN /\ result' = [result EXCEPT ![p] = o]
                   /\ pc' = [pc EXCEPT ![p] = "done"]
            ELSE IF CacheExcCaught(o.v)
              THEN /\ pc' = [pc EXCEPT ![p] = "unlink"]
                   /\ UNCHANGED result
            ELSE /\ result' = [result EXCEPT ![p] = [tag |-> "raised", v |-> o.v]]
                 /\ pc' = [pc EXCEPT ![p] = "raised"]
  /\ det' = [det EXCEPT ![p] = FALSE]
  /\ UNCHANGED <<world, file, req, key, tnow, lastDone, wroteReq,
                 attempt, last_error, data, wpos, priv,
                 sent, waits, lastOutcome, startFile>>
  /\ UNCHANGED others
  /\ failed' = IF pc'[p] = "done"
                 THEN [failed EXCEPT ![key[p]] = (result'[p].tag = "error")]
                 ELSE failed

\* Threads that hold an open handle on the file of key k.
Holders(k) == { q \in Procs : key[q] = k /\ pc[q] \in {"load", "write"} /\ ~det[q] }

UnlinkKeeps(p) ==
  /\ pc[p] = "unlink"
  /\ pc' = [pc EXCEPT ![p] = "attempt"]
  /\ UNCHANGED <<world, file, req, key, tnow, result, lastDone, wroteReq, hist, locals>>
  /\ UNCHANGED others
  /\ UNCHANGED failed

\* cache_file.unlink(missing_ok=True)
Unlink(p) ==
  /\ pc[p] = "unlink"
  /\ file' = [file EXCEPT ![key[p]] = Absent]
  /\ det' = [q \in Procs |-> IF q \in Holders(key[p]) THEN TRUE ELSE det[q]]
  /\ priv' = [q \in Procs |-> IF q \in Holders(key[p]) THEN file[key[p]].bytes ELSE priv[q]]
  /\ pc' = [pc EXCEPT ![p] = "attempt"]
  /\ UNCHANGED <<world, req, key, tnow, result, lastDone, wroteReq, hist,
                 attempt, last_error, data, wpos>>
  /\ UNCHANGED others
  /\ UNCHANGED failed

\* One iteration of the retry loop up to the cache write: requests.get,
\* the status and body checks, response.json(), and the except clause.
Attempt(p) ==
  /\ pc[p] = "attempt"
  /\ \E resp \in Responses :
       LET o == AttemptOutcome(resp) IN
         /\ lastOutcome' = [lastOutcome EXCEPT ![p] = o.v]
         /\ IF o.tag = "data"
              THEN /\ data' = [data EXCEPT ![p] = o.v]
                   /\ pc' = [pc EXCEPT ![p] = "open_w"]
                   /\ UNCHANGED <<last_error, result, attempt>>
              ELSE /\ last_error' = [last_error EXCEPT ![p] = SetLastError(last_error[p], o.v)]
                   /\ UNCHANGED data
                   /\ IF SleepsAfter(attempt[p])
                        THEN /\ pc' = [pc EXCEPT ![p] = "sleep"]
                             /\ UNCHANGED <<result, attempt>>
                        ELSE IF LoopDone(attempt[p])
                        THEN /\ pc' = [pc EXCEPT ![p] = "done"]
                             /\ result' = [result EXCEPT ![p] =
                                             ErrorResult(SetLastError(last_error[p], o.v))]
                             /\ UNCHANGED attempt
                        ELSE /\ attempt' = [attempt EXCEPT ![p] = attempt[p] + 1]
                             /\ UNCHANGED <<pc, result>>
  /\ sent' = [sent EXCEPT ![p] = sent[p] + 1]
  /\ UNCHANGED <<world, file, req, key, tnow, lastDone, wroteReq,
                 wpos, det, priv, waits, startFile, seen>>
  /\ UNCHANGED others
  /\ failed' = IF pc'[p] = "done"
                 THEN [failed EXCEPT ![key[p]] = (result'[p].tag = "error")]
                 ELSE failed

\* time.sleep((attempt + 1) * 1.0); continue: the next iteration of the
\* loop, or the return after it.
Sleep(p) ==
  /\ pc[p] = "sleep"
  /\ now' = now + Backoff(attempt[p])
  /\ waits' = [waits EXCEPT ![p] = Append(waits[p], Backoff(attempt[p]))]
  /\ IF LoopDone(attempt[p])
       THEN /\ pc' = [pc EXCEPT ![p] = "done"]
            /\ result' = [result EXCEPT ![p] = ErrorResult(last_error[p])]
            /\ UNCHANGED attempt
       ELSE /\ pc' = [pc EXCEPT ![p] = "attempt"]
            /\ attempt' = [attempt EXCEPT ![p] = attempt[p] + 1]
            /\ UNCHANGED result
  /\ UNCHANGED <<ticks, calls, file, req, key, tnow, lastDone, wroteReq,
                 last_error, data, wpos, det, priv,
                 sent, lastOutcome, startFile, seen>>
  /\ UNCHANGED others
  /\ UNCHANGED failed

\* open(cache_file, 'wb'): the file is created, or truncated in place.
OpenW(p) ==
  /\ pc[p] = "open_w"
  /\ file' = [file EXCEPT ![key[p]] = File(<<>>, now)]
  /\ wpos' = [wpos EXCEPT ![p] = 0]
  /\ det' = [det EXCEPT ![p] = FALSE]
  /\ pc' = [pc EXCEPT ![p] = "write"]
  /\ UNCHANGED <<world, req, key, tnow, result, lastDone, wroteReq, hist,
                 attempt, last_error, data, priv>>
  /\ UNCHANGED others
  /\ UNCHANGED failed

\* pickle.dump(data, f): the next write() of the pickle at the handle's
\* offset; after the last one the file is closed and data is returned.
Write(p) ==
  /\ pc[p] = "write"
  /\ LET chunks == Serialize(data[p])
         last == wpos[p] + 1 = Len(chunks) IN
       /\ IF det[p]
            THEN UNCHANGED file
            ELSE file' = [file EXCEPT ![key[p]] =
                            File(WriteAt(file[key[p]].bytes, wpos[p], chunks[wpos[p] + 1]), now)]
       /\ wpos' = [wpos EXCEPT ![p] = wpos[p] + 1]
       /\ IF last
            THEN /\ pc' = [pc EXCEPT ![p] = "done"]
                 /\ result' = [result EXCEPT ![p] = [tag |-> "data", v |-> data[p]]]
                 /\ lastDone' = [lastDone EXCEPT ![key[p]] = data[p]]
                 /\ wroteReq' = [wroteReq EXCEPT ![key[p]] = req[p]]
                 /\ det' = [det EXCEPT ![p] = FALSE]
            ELSE UNCHANGED <<pc, result, lastDone, wroteReq, det>>
  /\ UNCHANGED <<world, req, key, tnow, hist, attempt, last_error, data, priv>>
  /\ UNCHANGED others
  /\ failed' = IF pc'[p] = "done"
                 THEN [failed EXCEPT ![key[p]] = (result'[p].tag = "error")]
                 ELSE failed

\* The caller takes the outcome; the thread is free for another call.
Finish(p) ==
  /\ pc[p] \in {"done", "raised"}
  /\ pc' = [pc EXCEPT ![p] = "idle"]
  /\ req' = [req EXCEPT ![p] = NoReq]
  /\ key' = [key EXCEPT ![p] = NoKey]
  /\ tnow' = [tnow EXCEPT ![p] = 0]
  /\ attempt' = [attempt EXCEPT ![p] = 0]
  /\ last_error' = [last_error EXCEPT ![p] = None]
  /\ data' = [data EXCEPT ![p] = None]
  /\ wpos' = [wpos EXCEPT ![p] = 0]
  /\ det' = [det EXCEPT ![p] = FALSE]
  /\ priv' = [priv EXCEPT ![p] = <<>>]
  /\ result' = [result EXCEPT ![p] = None]
  /\ sent' = [sent EXCEPT ![p] = 0]
  /\ waits' = [waits EXCEPT ![p] = <<>>]
  /\ lastOutcome' = [lastOutcome EXCEPT ![p] = None]
  /\ startFile' = [startFile EXCEPT ![p] = Absent]
  /\ seen' = [seen EXCEPT ![p] = {}]
  /\ UNCHANGED <<world, file, lastDone, wroteReq>>
  /\ UNCHANGED others
  /\ UNCHANGED failed

\* The steps of api_request after the call.
Body(p) ==
  \/ Exists(p) \/ Stat(p) \/ OpenR(p) \/ Load(p) \/ Unlink(p)
  \/ Attempt(p) \/ Sleep(p) \/ OpenW(p) \/ Write(p) \/ Finish(p)

\* Sequential mode: every fetch is a blocking call of the one thread, and
\* the clock advances at any point.
Next == Tick \/ Call(1) \/ Body(1)

Spec == Init /\ [][Next]_vars

\* The requests of one key: one params mapping in its insertion orders.
SameKeyRequests == { r \in Requests : AsMapping(r.params) = {<<"limit", 10>>, <<"page", 1>>} }

ConcKey == CacheKey("/networks", << <<"limit", 10>>, <<"page", 1>> >>)

CallSameKey(p) == CallFrom(p, SameKeyRequests)

\* Two threads call api_request for the same key with no coordination; the
\* clock advances by the sleeps of the retry loops.
NextConc == \E p \in Procs : CallSameKey(p) \/ Body(p)

\* The cache holds for that key nothing, or the empty file left by a write
\* that was cut short.
ConcInit ==
  /\ Init
  /\ file[ConcKey] \in {Absent, File(<<>>, 0)}
  /\ \A k \in Keys \ {ConcKey} : file[k] = Absent

ConcSpec == ConcInit /\ [][NextConc]_vars

\* ---------------------------------------------------------------- claims
Deserializable(bytes) == \E d \in Payloads : bytes = Serialize(d)

PayloadOf(bytes) == CHOOSE d \in Payloads : bytes = Serialize(d)

FailureKinds == {"ConnectionError", "HTTPError", "Empty response body", "JSONDecodeError"}

Returned(p) == pc[p] \in {"done", "raised"}

\* Age of the entry the call started with, at the call's cache check.
AgeAtCheck(p) == tnow[p] - startFile[p].mtime

SameRequest(r1, r2) ==
  r1.endpoint = r2.endpoint /\ AsMapping(r1.params) = AsMapping(r2.params)

\* C1: a call that starts with a deserializable entry for its key returns
\* that entry's payload with zero transport calls when the entry's age at
\* the cache check is below 300, and makes a transport attempt when the age
\* is 300 or more.
C1_CacheHitWithinTTL ==
  \A p \in Procs :
    (Returned(p) /\ startFile[p].ex /\ Deserializable(startFile[p].bytes)) =>
      IF AgeAtCheck(p) < 300
        THEN /\ pc[p] = "done"
             /\ result[p] = [tag |-> "data", v |-> PayloadOf(startFile[p].bytes)]
             /\ sent[p] = 0
        ELSE sent[p] >= 1

C1_Witness ==
  /\ pc[1] = "done" /\ sent[1] = 0
  /\ startFile[1].ex /\ Deserializable(startFile[1].bytes)
  /\ AgeAtCheck(1) = 299
  /\ result[1] = [tag |-> "data", v |-> PayloadOf(startFile[1].bytes)]

\* C2: a call makes at most 3 transport attempts and none after a
\* successful one; the sleeps it has made are 1 then 2, attempt k+1 coming
\* after exactly k sleeps, and a call that returns the failure result has
\* made 3 attempts and slept <<1, 2>>, with no sleep after the third.
C2_RetrySchedule ==
  \A p \in Procs :
    /\ sent[p] <= 3
    /\ IsPrefix(waits[p], <<1, 2>>)
    /\ pc[p] = "attempt" => Len(waits[p]) = sent[p]
    /\ lastOutcome[p] \in Payloads =>
         /\ pc[p] \in {"open_w", "write", "done"}
         /\ Len(waits[p]) = sent[p] - 1
    /\ (pc[p] = "done" /\ result[p].tag = "error") =>
         sent[p] = 3 /\ waits[p] = <<1, 2>>

C2_Witness ==
  /\ pc[1] = "done" /\ result[1].tag = "data"
  /\ sent[1] = 3 /\ waits[1] = <<1, 2>>

\* C3: when the third attempt has failed, whatever the kinds of the three
\* failures, the call has returned {"error": <the last attempt's error>};
\* no failed attempt makes the call raise.
C3_FailureResult ==
  \A p \in Procs :
    /\ (sent[p] = 3 /\ lastOutcome[p] \in FailureKinds) =>
         pc[p] = "done" /\ result[p] = [tag |-> "error", v |-> lastOutcome[p]]
    /\ pc[p] = "raised" => sent[p] = 0

C3_Witness ==
  /\ pc[1] = "done" /\ sent[1] = 3
  /\ result[1] = [tag |-> "error", v |-> "Empty response body"]

\* C4 as stated: after a fetch whose 3 attempts all failed the cache holds
\* no entry for the key, whatever entry the fetch started with.
C4_NoEntryAfterFailure ==
  \A p \in Procs :
    (pc[p] = "done" /\ result[p].tag = "error") => ~file[key[p]].ex

\* C4 amended: after a fetch whose 3 attempts all failed, the cache holds
\* no entry for the key, unless the fetch started with an entry that was
\* expired at the cache check: that entry is still there, unchanged.
C4_NoFreshEntryAfterFailure ==
  \A p \in Procs :
    (pc[p] = "done" /\ result[p].tag = "error") =>
      IF startFile[p].ex /\ AgeAtCheck(p) >= 300
        THEN file[key[p]] = startFile[p]
        ELSE ~file[key[p]].ex

C4_Witness ==
  /\ pc[1] = "done" /\ result[1].tag = "error" /\ sent[1] = 3
  /\ startFile[1].ex /\ AgeAtCheck(1) >= 300
  /\ file[key[1]] = startFile[1]

\* C5: in sequential mode, when a call returns a payload it fetched, the
\* payload is the one the successful attempt parsed, the cache file of the
\* key holds exactly that payload (it deserializes to the returned value),
\* and the file's stored-at time is not before the call's cache check.
C5_SuccessIsCached ==
  \A p \in Procs :
    (pc[p] = "done" /\ result[p].tag = "data" /\ sent[p] >= 1) =>
      /\ result[p].v = lastOutcome[p]
      /\ file[key[p]].ex
      /\ file[key[p]].bytes = Serialize(result[p].v)
      /\ Unpickle(file[key[p]].bytes) = {result[p]}
      /\ file[key[p]].mtime >= tnow[p]
      /\ file[key[p]].mtime <= now

C5_Witness ==
  /\ pc[1] = "done" /\ result[1].tag = "data" /\ sent[1] >= 1
  /\ startFile[1].ex /\ Deserializable(startFile[1].bytes)
  /\ PayloadOf(startFile[1].bytes) # result[1].v
  /\ file[key[1]] = File(Serialize(result[1].v), file[key[1]].mtime)
  /\ file[key[1]].mtime > startFile[1].mtime

\* C6 as stated: a call that read an entry that does not deserialize never
\* raises; it goes on to the transport attempts and returns what they give.
C6_CorruptionIsSilent ==
  \A p \in Procs :
    (seen[p] # {} /\ \A s \in seen[p] : ~Deserializable(s.bytes)) =>
      /\ pc[p] \in {"unlink", "attempt", "sleep", "open_w", "write", "done"}
      /\ pc[p] = "done" =>
           /\ sent[p] >= 1
           /\ result[p] \in {[tag |-> "data", v |-> lastOutcome[p]],
                             [tag |-> "error", v |-> lastOutcome[p]]}

\* C7: a call whose request has the endpoint and the params mapping of the
\* request that wrote an entry, in whatever insertion order, computes the
\* key of that entry; started while the entry is within TTL, it returns the
\* entry's payload without a transport call.
C7_KeyIgnoresInsertionOrder ==
  \A p \in Procs : \A k \in Keys :
    (pc[p] # "idle" /\ wroteReq[k] # NoReq /\ SameRequest(req[p], wroteReq[k])) =>
      /\ key[p] = k
      /\ (pc[p] = "done" /\ startFile[p] = File(Serialize(lastDone[k]), startFile[p].mtime)
            /\ AgeAtCheck(p) < 300) =>
           sent[p] = 0 /\ result[p] = [tag |-> "data", v |-> lastDone[k]]

C7_Witness ==
  /\ pc[1] = "done" /\ sent[1] = 0 /\ result[1].tag = "data"
  /\ wroteReq[key[1]] # NoReq
  /\ wroteReq[key[1]].params # req[1].params
  /\ result[1].v = lastDone[key[1]]

\* C8 as stated: a read of the cache file made while another call is
\* between opening the file for writing and finishing its dump observes a
\* complete payload.
C8_NoPartialEntryVisible ==
  \A p \in Procs : \A s \in seen[p] : s.midwrite => Deserializable(s.bytes)

\* C9 as stated: when no call is in progress and some call has written the
\* key, the cache file of the key exists and holds exactly the payload of
\* the write that finished last.
C9_LastWriteWins ==
  (\A p \in Procs : pc[p] \in {"idle", "done", "raised"}) =>
    \A k \in Keys :
      lastDone[k] # None => file[k].ex /\ file[k].bytes = Serialize(lastDone[k])

\* C10 as stated: under every interleaving of two calls for one key, no
\* call raises, and a call that returns gives a complete payload or the
\* failure result.
C10_NoCoordinationNeeded ==
  \A p \in Procs :
    /\ pc[p] # "raised"
    /\ pc[p] = "done" =>
         \/ result[p].tag = "error"
         \/ result[p].tag = "data" /\ result[p].v \in Payloads

\* ---------------------------------------------------------------------------
\* The async helpers: a batch of async_api_request tasks under asyncio.gather
\* ---------------------------------------------------------------------------

\* No cache entry on disk and nothing running: the start of the components
\* that do not use api_request's cache.
Quiet == Init /\ file = [k \in Keys |-> Absent]

MaxBatch == 2

\* The networks, token addresses or queries a batch is made of.
Names == {"ethereum", "polygon"}

AsyncFns == {"async_get_multiple_pools", "async_get_token_data_batch",
             "async_batch_search"}

Batches == UNION {[1..k -> Names] : k \in 0..MaxBatch}

Pending == [tag |-> "pending"]

\* async_api_request has no cache, no retry and no status check: it returns
\* what response.json() gives for the name asked for, or the exception of
\* session.get (ClientError) or of response.json() (ContentTypeError)
\* leaves the coroutine.
TaskOutcomes(n) ==
  {[tag |-> "data", of |-> n]} \cup
  {[tag |-> "exc", exc |-> e] : e \in {"ClientError", "ContentTypeError"}}

IsExc(o) == o.tag = "exc"

\* The cache key that api_request would compute for the request made for a
\* name; the two keys of the cache stand for them.
KeyOfName(n) ==
  IF n = "ethereum" THEN CacheKey("/networks", <<>>)
  ELSE CacheKey("/networks", <<<<"limit", 10>>, <<"page", 1>>>>)

\* A file that api_request would answer from: it deserializes and is within
\* the TTL.
Hit(f, t) == f.ex /\ Fresh(t, f.mtime) /\ \E o \in Unpickle(f.bytes) : o.tag = "data"

AsyncFetchCached(f, t, n) ==
  IF Hit(f, t) THEN {[attempts |-> 0, res |-> [tag |-> "data", of |-> n]]}
  ELSE {[attempts |-> 1, res |-> o] : o \in TaskOutcomes(n)}

\* async_api_request(endpoint, params) when the cache file of the request
\* is f at time t: one session.get, whatever f is, and its outcome.
AsyncFetch(f, t, n) == {[attempts |-> 1, res |-> o] : o \in TaskOutcomes(n)}

\* asyncio.gather(*tasks, return_exceptions): with return_exceptions the
\* awaiting coroutine resumes when every task is done and gets the list of
\* their results and exceptions in the order of the tasks; without it, an
\* exception of a task is raised in the awaiting coroutine.
GatherReady(slot, return_exceptions) ==
  \/ \A i \in DOMAIN slot : slot[i] # Pending
  \/ ~return_exceptions /\ \E i \in DOMAIN slot : slot[i] # Pending /\ IsExc(slot[i])

GatherRaises(slot, return_exceptions) ==
  ~return_exceptions /\ \E i \in DOMAIN slot : slot[i] # Pending /\ IsExc(slot[i])

\* {network: result for network, result in zip(networks, results)}: a later
\* pair with the same network replaces the earlier one.
LastIndex(args, n) == CHOOSE i \in DOMAIN args :
                        args[i] = n /\ \A j \in DOMAIN args : args[j] = n => j <= i

ZipDict(args, results) ==
  [n \in {args[i] : i \in DOMAIN args} |-> results[LastIndex(args, n)]]

\* What each helper returns from the gathered results.
BatchReturn(fn, args, results) ==
  IF fn = "async_get_multiple_pools"
    THEN [kind |-> "dict", items |-> ZipDict(args, results)]
    ELSE [kind |-> "list", items |-> results]

\* The helper creates one coroutine per element of its argument.
StartBatch ==
  /\ bt = Idle
  /\ \E fn \in AsyncFns : \E args \in Batches :
       bt' = [st |-> "gathering", fn |-> fn, args |-> args,
              slot |-> [i \in DOMAIN args |-> Pending],
              tries |-> [i \in DOMAIN args |-> 0]]
  /\ UNCHANGED <<cachevars, mon, ov, fx>>

\* One task of the batch finishes, in any order.
TaskDone(i) ==
  /\ bt.st = "gathering"
  /\ i \in DOMAIN bt.args
  /\ bt.slot[i] = Pending
  /\ \E o \in AsyncFetch(file[KeyOfName(bt.args[i])], now, bt.args[i]) :
       bt' = [bt EXCEPT !.slot[i] = o.res, !.tries[i] = @ + o.attempts]
  /\ UNCHANGED <<cachevars, mon, ov, fx>>

\* The await of gather resumes and the helper returns (or the exception
\* leaves the helper).
Gather ==
  /\ bt.st = "gathering"
  /\ GatherReady(bt.slot, TRUE)
  /\ bt' = IF GatherRaises(bt.slot, TRUE)
             THEN [st |-> "raised", fn |-> bt.fn, args |-> bt.args, slot |-> bt.slot,
                   tries |-> bt.tries]
             ELSE [st |-> "returned", fn |-> bt.fn, args |-> bt.args, slot |-> bt.slot,
                   tries |-> bt.tries,
                   out |-> BatchReturn(bt.fn, bt.args, bt.slot)]
  /\ UNCHANGED <<cachevars, mon, ov, fx>>

NextGather == StartBatch \/ (\E i \in 1..MaxBatch : TaskDone(i)) \/ Gather

GatherSpec == Quiet /\ [][NextGather]_vars

\* The number of result slots of a returned batch and the content of the
\* slot of request i.
SlotCount(out) == IF out.kind = "dict" THEN Cardinality(DOMAIN out.items)
                                       ELSE Len(out.items)

SlotOf(out, args, i) == IF out.kind = "dict" THEN out.items[args[i]]
                                             ELSE out.items[i]

\* C11 as stated: a batch of k requests never raises out of the helper, and
\* what it returns has exactly k slots, slot i holding the outcome (data or
\* exception) of request i.
C11_BatchSlots ==
  /\ bt.st # "raised"
  /\ bt.st = "returned" =>
       /\ SlotCount(bt.out) = Len(bt.args)
       /\ \A i \in DOMAIN bt.args : SlotOf(bt.out, bt.args, i) = bt.slot[i]

\* ---------------------------------------------------------------------------
\* async_monitor_prices: the polling loop
\* ---------------------------------------------------------------------------

MaxRounds == 2

\* A request that was in flight when CancelledError reached the gather.
Cancelled == [tag |-> "cancelled"]

\* The call of the coroutine: the first round creates one request per pool
\* address and awaits their gather.
StartMonitor ==
  /\ mon = Idle
  /\ \E addrs \in Batches :
       mon' = [st |-> "gathering", addrs |-> addrs, round |-> 1,
               slot |-> [i \in DOMAIN addrs |-> Pending],
               tries |-> [i \in DOMAIN addrs |-> 0]]
  /\ UNCHANGED <<cachevars, bt, ov, fx>>

\* One request of the round in flight finishes.
MonTaskDone(i) ==
  /\ mon.st = "gathering"
  /\ i \in DOMAIN mon.addrs
  /\ mon.slot[i] = Pending
  /\ \E o \in AsyncFetch(file[KeyOfName(mon.addrs[i])], now, mon.addrs[i]) :
       mon' = [mon EXCEPT !.slot[i] = o.res, !.tries[i] = @ + o.attempts]
  /\ UNCHANGED <<cachevars, bt, ov, fx>>

\* Every request of the round is done: the prices are printed (no state
\* but the standard output changes) and the loop awaits asyncio.sleep.
MonGather ==
  /\ mon.st = "gathering"
  /\ GatherReady(mon.slot, TRUE)
  /\ mon' = [mon EXCEPT !.st = "sleeping"]
  /\ UNCHANGED <<cachevars, bt, ov, fx>>

\* The sleep is over; "while True" has no condition to test, so the next
\* round starts.
MonWake ==
  /\ mon.st = "sleeping"
  /\ mon.round < MaxRounds
  /\ mon' = [mon EXCEPT !.st = "gathering", !.round = @ + 1,
                        !.slot = [i \in DOMAIN mon.addrs |-> Pending],
                        !.tries = [i \in DOMAIN mon.addrs |-> 0]]
  /\ UNCHANGED <<cachevars, bt, ov, fx>>

\* The loop takes no stop flag or event and tests none: the one way to stop
\* it from outside is to cancel its task.  CancelledError is raised at the
\* await the coroutine is suspended in, asyncio.sleep or the gather; a
\* cancelled gather cancels each of its requests that is not done.
Cancel ==
  /\ mon.st \in {"gathering", "sleeping"}
  /\ mon' = [mon EXCEPT
               !.st = "cancelled",
               !.slot = [i \in DOMAIN mon.slot |->
                           IF mon.st = "gathering" /\ mon.slot[i] = Pending
                             THEN Cancelled ELSE mon.slot[i]]]
  /\ UNCHANGED <<cachevars, bt, ov, fx>>

NextMonitor ==
  \/ StartMonitor
  \/ \E i \in 1..MaxBatch : MonTaskDone(i)
  \/ MonGather
  \/ MonWake
  \/ Cancel

MonitorSpec == Quiet /\ [][NextMonitor]_vars

\* C12 as stated: when the loop is stopped from outside, the round in flight
\* has completed: no request of it was cancelled.
C12_StopBetweenRounds ==
  mon.st = "cancelled" => \A i \in DOMAIN mon.slot : mon.slot[i] # Cancelled

\* ---------------------------------------------------------------------------
\* get_market_overview
\* ---------------------------------------------------------------------------

MaxNets == 6

\* networks[:5]
TopNetworks == 5

\* What a fetch (get_system_stats, get_networks, get_network_pools) gives
\* back: the decoded payload, or the failure result of api_request.
FetchFailures == {ErrorResult(e) : e \in {"HTTPError"}}

\* /stats: the payload's "pools" count.
StatsFetches == {[tag |-> "data", v |-> [pools |-> 7]]} \cup FetchFailures

\* /networks: a list of networks, here named by their ids 1..n.
NetworksFetches ==
  {[tag |-> "data", v |-> [i \in 1..n |-> i]] : n \in 0..MaxNets} \cup FetchFailures

\* A JSON value of a payload: a number, or null (None in Python).
Num(n) == [ty |-> "num", n |-> n]

PyNone == [ty |-> "none", n |-> 0]

\* /networks/{id}/pools: {"pools": [...]}; a pool is given by its
\* "volume_usd".
PoolsFetches ==
  {[tag |-> "data", v |-> l] :
     l \in {<<>>, <<Num(10)>>, <<Num(10), Num(20)>>, <<Num(10), PyNone>>}}
  \cup FetchFailures

\* extract_system_stats: .get with default 0, on the payload or on the
\* failure result, which has no such key.
extract_system_stats(stats) ==
  IF stats.tag = "data" THEN [pools |-> stats.v.pools] ELSE [pools |-> 0]

\* extract_pools: data.get("pools", []) of a dict; the failure result is a
\* dict without "pools".
extract_pools(fetched) == IF fetched.tag = "data" THEN fetched.v ELSE <<>>

\* sum(pool.get("volume_usd", 0) for pool in pool_list): adding None to a
\* number raises TypeError.
SumRaises(pool_list) == \E i \in DOMAIN pool_list : pool_list[i].ty # "num"

RECURSIVE SumVolumes(_)
SumVolumes(pool_list) ==
  IF pool_list = <<>> THEN 0
  ELSE pool_list[1].n + SumVolumes(Tail(pool_list))

\* Lines 759-760: the stats fetch and its extraction.
OvStart ==
  /\ ov = Idle
  /\ \E stats \in StatsFetches :
       ov' = [st |-> "stats", stats_data |-> extract_system_stats(stats),
              todo |-> <<>>, network_overview |-> <<>>, got |-> <<>>]
  /\ UNCHANGED <<cachevars, bt, mon, fx>>

\* Lines 763-766: the network-list fetch and the slice networks[:5], which
\* is outside the try: slicing the failure result, a dict, raises TypeError.
OvNetworks ==
  /\ ov.st = "stats"
  /\ \E networks \in NetworksFetches :
       IF networks.tag = "error"
         THEN ov' = [ov EXCEPT !.st = "raised"]
         ELSE ov' = [ov EXCEPT !.st = "loop",
                               !.todo = SubSeq(networks.v, 1,
                                          IF Len(networks.v) < TopNetworks
                                            THEN Len(networks.v) ELSE TopNetworks)]
  /\ UNCHANGED <<cachevars, bt, mon, fx>>

\* Lines 767-778: one iteration of the loop.  The entry is recorded unless
\* an exception is raised inside the try; a failed pools fetch raises
\* nothing, it is the failure result and extract_pools gives [] for it.
OvPools ==
  /\ ov.st = "loop"
  /\ ov.todo # <<>>
  /\ LET network_id == Head(ov.todo) IN
     \E pools \in PoolsFetches :
       LET pool_list == extract_pools(pools) IN
       ov' = [ov EXCEPT
                !.todo = Tail(@),
                !.got = (network_id :> pools.tag) @@ @,
                !.network_overview =
                   IF SumRaises(pool_list) THEN @
                   ELSE (network_id :> [total_volume |-> SumVolumes(pool_list),
                                        pool_count |-> Len(pool_list)]) @@ @]
  /\ UNCHANGED <<cachevars, bt, mon, fx>>

\* Lines 780-784.
OvReturn ==
  /\ ov.st = "loop"
  /\ ov.todo = <<>>
  /\ ov' = [ov EXCEPT !.st = "returned"]
  /\ UNCHANGED <<cachevars, bt, mon, fx>>

NextOverview == OvStart \/ OvNetworks \/ OvPools \/ OvReturn

OverviewSpec == Quiet /\ [][NextOverview]_vars

\* C13 as stated: in the overview returned, a network among the first 5
\* whose pools fetch failed is not a key of network_overview, and one whose
\* pools fetch succeeded is a key.
C13_FailedNetworkOmitted ==
  ov.st = "returned" =>
    \A id \in DOMAIN ov.got :
      /\ ov.got[id] = "error" => id \notin DOMAIN ov.network_overview
      /\ ov.got[id] = "data" => id \in DOMAIN ov.network_overview

\* C14 as stated: whichever of the stats fetch, the network-list fetch and
\* the pools fetches return the failure result, get_market_overview does
\* not raise.
C14_OverviewNeverRaises == ov.st # "raised"

\* ---------------------------------------------------------------------------
\* top_n and get_top_movers
\* ---------------------------------------------------------------------------

MaxLen == 3

\* A field that the record does not have.
Missing == [ty |-> "missing", n |-> 0]

Min(a, b) == IF a < b THEN a ELSE b

Max(a, b) == IF a < b THEN b ELSE a

Abs(a) == IF a < 0 THEN -a ELSE a

SeqsUpTo(S, len) == UNION {[1..k -> S] : k \in 0..len}

\* The records of a list, each with its position in the list as identity
\* and the value f of the field that is ranked.
Records(vals) == [i \in DOMAIN vals |-> [id |-> i, f |-> vals[i]]]

\* key=lambda x: x.get(field, 0) or 0
SortKey(x) == IF x.f.ty = "num" THEN x.f.n ELSE 0

\* sorted(..., reverse=True) is stable: of two elements with equal keys the
\* one that comes first in the input comes first in the output.  Inserting
\* the elements in input order, each after every element whose key is not
\* smaller, gives that order.
InsertBeforeEqual(sorted, x) ==
  LET k == Cardinality({i \in DOMAIN sorted : SortKey(sorted[i]) > SortKey(x)})
  IN  SubSeq(sorted, 1, k) \o <<x>> \o SubSeq(sorted, k + 1, Len(sorted))

InsertDesc(sorted, x) ==
  LET k == Cardinality({i \in DOMAIN sorted : SortKey(sorted[i]) >= SortKey(x)})
  IN  SubSeq(sorted, 1, k) \o <<x>> \o SubSeq(sorted, k + 1, Len(sorted))

RECURSIVE SortedDesc(_)
SortedDesc(seq) ==
  IF seq = <<>> THEN <<>>
  ELSE InsertDesc(SortedDesc(SubSeq(seq, 1, Len(seq) - 1)), seq[Len(seq)])

\* seq[:n]; a negative n counts from the end.
Slice(seq, n) ==
  IF n >= 0 THEN SubSeq(seq, 1, Min(n, Len(seq)))
  ELSE SubSeq(seq, 1, Max(Len(seq) + n, 0))

top_n(seq, n) == Slice(SortedDesc(seq), n)

\* validate_volume of filter_by_volume: float(volume), 0.0 for None, for
\* what float() rejects, for a non-finite and for a negative number.
validate_volume(volume) ==
  IF volume.ty \in {"num", "str"} /\ volume.n >= 0 THEN volume.n ELSE 0

filter_by_volume(seq, min_volume) ==
  SelectSeq(seq, LAMBDA item : validate_volume(item.volume_usd) >= min_volume)

\* The values of the ranked field that top_n is applied to.
FieldVals == {Missing, PyNone, Num(-1), Num(0), Num(2)}

\* The pools of a /networks/{id}/pools payload: the 24h price change as f,
\* and the volume.
MoverPools(len) ==
  {[i \in DOMAIN ch |-> [id |-> i, f |-> ch[i], volume_usd |-> vol[i]]] :
     <<ch, vol>> \in UNION {[1..k -> {Num(-50), Num(10), PyNone}] \X
                              [1..k -> {Num(2), Num(0), PyNone}] : k \in 0..len}}

MoverFetches == {[tag |-> "data", v |-> l] : l \in MoverPools(MaxLen)} \cup FetchFailures

\* top_n(data, field, n)
ApplyTopN ==
  /\ fx = Idle
  /\ \E vals \in SeqsUpTo(FieldVals, MaxLen) : \E n \in -1..(MaxLen + 1) :
       fx' = [st |-> "top_n", data |-> Records(vals), n |-> n,
              out |-> top_n(Records(vals), n)]
  /\ UNCHANGED <<cachevars, bt, mon, ov>>

\* get_top_movers(network, limit, min_volume)
GetTopMovers ==
  /\ fx = Idle
  /\ \E pools \in MoverFetches : \E limit \in 0..MaxLen : \E min_volume \in {1, 3} :
       LET pool_list == extract_pools(pools)
           filtered  == filter_by_volume(pool_list, min_volume)
       IN  fx' = [st |-> "get_top_movers", data |-> pool_list, n |-> limit,
                  min_volume |-> min_volume, out |-> top_n(filtered, limit)]
  /\ UNCHANGED <<cachevars, bt, mon, ov>>

NextRank == ApplyTopN \/ GetTopMovers

RankSpec == Quiet /\ [][NextRank]_vars

\* The ids of the elements of a list.
Ids(seq) == {seq[i].id : i \in DOMAIN seq}

\* The magnitude of a pool's 24h price change.
Magnitude(x) == Abs(SortKey(x))

\* The fetched pools that pass the volume filter.
Eligible(seq, min_volume) ==
  {i \in DOMAIN seq : validate_volume(seq[i].volume_usd) >= min_volume}

\* C15 as stated: get_top_movers returns at most limit pools, all of them
\* fetched pools whose sanitized volume is at least min_volume; no pool left
\* out has a larger price-change magnitude than a pool returned, and the
\* pools returned are in descending order of magnitude.
C15_TopMoversByMagnitude ==
  fx.st = "get_top_movers" =>
    /\ Len(fx.out) <= fx.n
    /\ Ids(fx.out) \subseteq Eligible(fx.data, fx.min_volume)
    /\ \A i \in DOMAIN fx.out : fx.out[i] = fx.data[fx.out[i].id]
    /\ \A e \in Eligible(fx.data, fx.min_volume) \ Ids(fx.out) :
         \A i \in DOMAIN fx.out : Magnitude(fx.data[e]) <= Magnitude(fx.out[i])
    /\ \A i, j \in DOMAIN fx.out :
         i < j => Magnitude(fx.out[i]) >= Magnitude(fx.out[j])

\* C16: for n >= 0, top_n(seq, f, n) has length min(n, len(seq)); it is
\* in descending order of f, a missing or None f counting as 0; each of its
\* elements is an element of seq, none used twice; elements with equal f
\* are in their order of seq; and no omitted element has a greater f than a
\* returned one.
C16_TopNStableDescending ==
  (fx.st = "top_n" /\ fx.n >= 0) =>
    /\ Len(fx.out) = Min(fx.n, Len(fx.data))
    /\ \A i, j \in DOMAIN fx.out :
         i < j => /\ SortKey(fx.out[i]) >= SortKey(fx.out[j])
                  /\ fx.out[i].id # fx.out[j].id
                  /\ SortKey(fx.out[i]) = SortKey(fx.out[j]) => fx.out[i].id < fx.out[j].id
    /\ \A i \in DOMAIN fx.out :
         /\ fx.out[i].id \in DOMAIN fx.data
         /\ fx.out[i] = fx.data[fx.out[i].id]
    /\ \A e \in DOMAIN fx.data \ Ids(fx.out) :
         \A i \in DOMAIN fx.out : SortKey(fx.data[e]) <= SortKey(fx.out[i])

\* top_n has cut a list short in which a None field ties with a 0.
C16_Witness ==
  /\ fx.st = "top_n" /\ fx.n >= 0
  /\ Len(fx.out) < Len(fx.data)
  /\ \E i, j \in DOMAIN fx.out :
       /\ i < j
       /\ fx.out[i].f = Num(0)
       /\ fx.out[j].f = PyNone

\* ---------------------------------------------------------------------------
\* clean_pool_data
\* ---------------------------------------------------------------------------

MaxPools == 2

\* The values of a pool's field, beside Missing, PyNone and Num.  In this
\* part a number n stands for n/2, so that 3 is 1.5 and int() has a
\* fraction to cut: Str(n) is the string that spells n/2 ("1.5", "2"),
\* BadStr a string that spells no number ("abc").
Str(n) == [ty |-> "str", n |-> n]

BadStr == [ty |-> "bad", n |-> 0]

Inf == [ty |-> "inf", n |-> 0]

NegInf == [ty |-> "ninf", n |-> 0]

NaN == [ty |-> "nan", n |-> 0]

RawVals == {Missing, PyNone, Num(-3), Num(0), Num(3), Str(3), Str(4),
            BadStr, Inf, NegInf, NaN}

NumericFields == {"price_usd", "volume_usd", "transactions",
                  "last_price_change_usd_24h"}

\* validate_price: float(price), 0.0 for None, for what float() rejects and
\* for a number that is not finite and positive.
validate_price(price) ==
  IF price.ty \in {"num", "str"} /\ price.n > 0 THEN Num(price.n) ELSE Num(0)

\* float(x) raises ValueError for a string that spells no number.
FloatRaises(x) == x.ty = "bad"

\* max(0.0, float(v)) for a volume that is there and not None, else 0.0;
\* max(0.0, inf) is inf, and max(0.0, nan) is 0.0 because nan > 0.0 is
\* false.
CleanVolume(v) ==
  IF v.ty \in {"num", "str"} THEN Num(Max(0, v.n))
  ELSE IF v.ty = "inf" THEN Inf
  ELSE Num(0)

\* int(x) of a number cuts the fraction, towards zero; int() raises
\* ValueError for "abc", for "1.5" and for nan, OverflowError for an
\* infinity.
IntPlusOne(n) == IF n >= 0 THEN (n \div 2) * 2 + 2 ELSE -(((-n) \div 2) * 2)

IntOf(n) == IF n >= 0 THEN (n \div 2) * 2 ELSE -(((-n) \div 2) * 2)

IntRaises(x) ==
  \/ x.ty \in {"bad", "inf", "ninf", "nan"}
  \/ x.ty = "str" /\ x.n % 2 # 0

CleanTransactions(x) ==
  IF x.ty \in {"num", "str"} THEN Num(Max(0, IntOf(x.n))) ELSE Num(0)

\* float(price_change) when it is there, not None and finite, else 0.0.
CleanChange(x) == IF x.ty \in {"num", "str"} THEN Num(x.n) ELSE Num(0)

\* An element of the list that is not a dict, and an argument that is not
\* a list.
NotADict == [notdict |-> TRUE]

NotAList == <<NotADict, NotADict, NotADict, NotADict>>

IsDict(pool) == pool # NotADict

\* The body of the loop for one dict: the four fields are replaced in a
\* copy of the pool, or an exception leaves the function.
PoolRaises(pool) ==
  \/ FloatRaises(pool.volume_usd)
  \/ IntRaises(pool.transactions)
  \/ FloatRaises(pool.last_price_change_usd_24h)

CleanPool(pool) ==
  [pool EXCEPT !.price_usd = validate_price(@),
               !.volume_usd = CleanVolume(@),
               !.transactions = CleanTransactions(@),
               !.last_price_change_usd_24h = CleanChange(@)]

\* inf > 0 is true.
Positive(v) == v.ty = "inf" \/ (v.ty = "num" /\ v.n > 0)

Kept(cleaned_pool) == Positive(cleaned_pool.price_usd) \/ Positive(cleaned_pool.volume_usd)

clean_pool_data(pools) ==
  IF pools = NotAList THEN [raised |-> FALSE, v |-> <<>>]
  ELSE IF \E i \in DOMAIN pools : IsDict(pools[i]) /\ PoolRaises(pools[i])
    THEN [raised |-> TRUE, v |-> <<>>]
  ELSE [raised |-> FALSE,
        v |-> LET dicts == SelectSeq(pools, IsDict)
                  cleaned_pools == [i \in DOMAIN dicts |-> CleanPool(dicts[i])]
              IN  SelectSeq(cleaned_pools, Kept)]

\* The pools that are given to clean_pool_data: a well-formed pool with one
\* of its numeric fields replaced, pools without a price, and a non-dict.
BasePool == [price_usd |-> Num(3), volume_usd |-> Num(3),
             transactions |-> Num(3), last_price_change_usd_24h |-> Num(-3)]

PoolInputs ==
  {[BasePool EXCEPT ![f] = v] : f \in NumericFields, v \in RawVals}
  \cup {[BasePool EXCEPT !.price_usd = PyNone, !.volume_usd = v] :
          v \in {Missing, Num(0), Num(-3), Inf}}
  \cup {NotADict}

CleanInputs == SeqsUpTo(PoolInputs, MaxPools) \cup {NotAList}

NotApplied == [raised |-> FALSE, v |-> <<>>]

\* clean_pool_data(pools)
ApplyClean ==
  /\ fx = Idle
  /\ \E pools \in CleanInputs :
       fx' = [st |-> "cleaned", pools |-> pools, once |-> clean_pool_data(pools),
              twice |-> NotApplied]
  /\ UNCHANGED <<cachevars, bt, mon, ov>>

\* clean_pool_data(clean_pool_data(pools)), when the first application
\* returned.
CleanAgain ==
  /\ fx.st = "cleaned"
  /\ ~fx.once.raised
  /\ fx' = [fx EXCEPT !.st = "recleaned", !.twice = clean_pool_data(fx.once.v)]
  /\ UNCHANGED <<cachevars, bt, mon, ov>>

NextClean == ApplyClean \/ CleanAgain

CleanSpec == Quiet /\ [][NextClean]_vars

\* C17: cleaning what clean_pool_data returned gives it back unchanged.
C17_CleanIdempotent ==
  fx.st = "recleaned" => fx.twice = fx.once

\* A list was cleaned twice in which the first cleaning converted a string,
\* cut a fraction and dropped an element.
C17_Witness ==
  /\ fx.st = "recleaned"
  /\ Len(fx.once.v) = 1 /\ Len(fx.pools) = 2
  /\ \E i \in DOMAIN fx.pools :
       /\ IsDict(fx.pools[i])
       /\ fx.pools[i].price_usd = Str(3)
       /\ fx.once.v[1].price_usd = Num(3)
       /\ fx.once.v[1].transactions = Num(2)

\* C18 as stated: whatever is in the numeric fields of the pools,
\* clean_pool_data does not raise and every numeric field of every pool
\* it returns is a finite number.
C18_MalformedFieldsCoerced ==
  fx.st = "cleaned" =>
    /\ ~fx.once.raised
    /\ \A i \in DOMAIN fx.once.v : \A f \in NumericFields : fx.once.v[i][f].ty = "num"

\* ---------------------------------------------------------------------------
\* calculate_safe_percentage
\* ---------------------------------------------------------------------------

\* A quotient num/den with den > 0, kept exact.
Frac(num, den) == [num |-> num, den |-> den]

\* if change > max_percent: return max_percent
\* if change < -max_percent: return -max_percent
ClampAbove(change, max_percent) ==
  IF change.num > max_percent * change.den THEN Frac(max_percent, 1)
  ELSE change

Clamp(change, max_percent) ==
  IF change.num > max_percent * change.den THEN Frac(max_percent, 1)
  ELSE IF change.num < (-max_percent) * change.den THEN Frac(-max_percent, 1)
  ELSE change

calculate_safe_percentage(current, previous, max_percent) ==
  LET curr_price == validate_price(current).n
      prev_price == validate_price(previous).n
  IN  IF prev_price = 0 \/ curr_price = 0 THEN Frac(0, 1)
      ELSE Clamp(Frac((curr_price - prev_price) * 100, prev_price), max_percent)

\* The prices and the bounds the function is applied to; 10000 is the
\* default of max_percent.
PriceVals == RawVals \cup {Num(1), Num(400)}

MaxPercents == {-5, 0, 50, 10000}

ApplyPercentage ==
  /\ fx = Idle
  /\ \E current \in PriceVals : \E previous \in PriceVals : \E M \in MaxPercents :
       fx' = [st |-> "calculate_safe_percentage", current |-> current,
              previous |-> previous, max_percent |-> M,
              r |-> calculate_safe_percentage(current, previous, M)]
  /\ UNCHANGED <<cachevars, bt, mon, ov>>

NextPercentage == ApplyPercentage

PercentageSpec == Quiet /\ [][NextPercentage]_vars

\* -M <= r <= M
WithinBound(r, M) == (-M) * r.den <= r.num /\ r.num <= M * r.den

\* C19 as stated: for every current, previous and M the result r satisfies
\* -M <= r <= M, and r is 0 when previous sanitizes to 0.
C19_WithinBoundForEveryM ==
  fx.st = "calculate_safe_percentage" =>
    /\ WithinBound(fx.r, fx.max_percent)
    /\ validate_price(fx.previous).n = 0 => fx.r.num = 0

\* C19, amended: for every current and previous and every M >= 0 the
\* result r satisfies -M <= r <= M; for every M, r is 0 when previous
\* sanitizes to 0.
C19_WithinBoundForNonNegativeM ==
  fx.st = "calculate_safe_percentage" =>
    /\ fx.max_percent >= 0 => WithinBound(fx.r, fx.max_percent)
    /\ validate_price(fx.previous).n = 0 => fx.r.num = 0

\* A fall of more than M percent was cut to -M.
C19_Witness ==
  /\ fx.st = "calculate_safe_percentage"
  /\ fx.max_percent = 50
  /\ fx.current = Num(1) /\ fx.previous = Num(400)
  /\ fx.r = Frac(-50, 1)

\* ---------------------------------------------------------------------------
\* detect_anomalies
\* ---------------------------------------------------------------------------

MaxRecords == 4

\* Python's float is a binary floating-point number: an operation gives the
\* representable number nearest to the exact result, the one with the even
\* mantissa when two are as near.  The numbers here have a mantissa of
\* MantissaBits bits (53 in Python) and a least exponent of 0, so that the
\* representable numbers are 0..2^MantissaBits - 1, then every second
\* number, then every fourth, and so on.
MantissaBits == 4

RECURSIVE Pow2(_)
Pow2(e) == IF e = 0 THEN 1 ELSE 2 * Pow2(e - 1)

\* The distance of the representable numbers around num/den >= 0.
RECURSIVE UlpFrom(_, _, _)
UlpFrom(u, num, den) ==
  IF num < Pow2(MantissaBits) * u * den THEN u ELSE UlpFrom(2 * u, num, den)

\* The float nearest to num/den, for num >= 0 and den > 0.
FloatRound(num, den) ==
  LET u   == UlpFrom(1, num, den)
      m   == num \div (den * u)
      rem == 2 * (num - m * den * u)
  IN  IF rem < den * u THEN m * u
      ELSE IF rem > den * u THEN (m + 1) * u
      ELSE IF m % 2 = 0 THEN m * u ELSE (m + 1) * u

\* sum(values): the additions are made from left to right, each rounded.
RECURSIVE FloatSum(_)
FloatSum(values) ==
  IF values = <<>> THEN 0
  ELSE FloatRound(FloatSum(SubSeq(values, 1, Len(values) - 1)) + values[Len(values)], 1)

\* item.get(field, 0)
FieldOr0(item) == IF item.f.ty = "num" THEN item.f.n ELSE 0

RECURSIVE SumSquares(_)
SumSquares(devs) ==
  IF devs = <<>> THEN 0 ELSE devs[1] * devs[1] + SumSquares(Tail(devs))

ZScoreAtLeast(dev, sumsq, len, tn, td) ==
  tn < 0 \/ dev * dev * len * td * td >= tn * tn * sumsq

\* abs(dev / std_dev) > threshold, where std_dev is the square root of
\* sumsq / len and the threshold is tn / td: for a threshold below 0 every
\* z-score is greater, otherwise the squares are compared.
ZScoreAbove(dev, sumsq, len, tn, td) ==
  tn < 0 \/ dev * dev * len * td * td > tn * tn * sumsq

detect_anomalies(items, tn, td) ==
  IF Len(items) < 3 THEN <<>>
  ELSE LET values   == [i \in DOMAIN items |-> FieldOr0(items[i])]
           mean_val == FloatRound(FloatSum(values), Len(values))
           devs     == [i \in DOMAIN values |-> values[i] - mean_val]
           sumsq    == SumSquares(devs)
       IN  IF sumsq = 0 THEN <<>>
           ELSE SelectSeq(items, LAMBDA item :
                  ZScoreAbove(FieldOr0(item) - mean_val, sumsq, Len(values), tn, td))

\* The field values of the records: floats, or no such field.
AnomalyVals ==
  {Missing} \cup {Num(v) : v \in {v \in {12, 14, 22} : FloatRound(v, 1) = v}}

\* The thresholds -1, 0, 1/2, 3/2 and 2 (the default).
Thresholds == {Frac(-1, 1), Frac(0, 1), Frac(1, 2), Frac(3, 2), Frac(2, 1)}

ApplyDetect ==
  /\ fx = Idle
  /\ \E vals \in SeqsUpTo(AnomalyVals, MaxRecords) : \E t \in Thresholds :
       fx' = [st |-> "detect_anomalies", data |-> Records(vals), threshold |-> t,
              out |-> detect_anomalies(Records(vals), t.num, t.den)]
  /\ UNCHANGED <<cachevars, bt, mon, ov>>

NextAnomaly == ApplyDetect

AnomalySpec == Quiet /\ [][NextAnomaly]_vars

\* The records whose z-score, with the exact population mean and standard
\* deviation, is above the threshold tn / td: with s the sum of the len
\* values, the deviation of v from the mean is (len * v - s) / len.
ExactAnomalies(items, tn, td) ==
  LET len   == Len(items)
      s     == SumVolumes([i \in DOMAIN items |-> Num(FieldOr0(items[i]))])
      devs  == [i \in DOMAIN items |-> len * FieldOr0(items[i]) - s]
      sumsq == SumSquares(devs)
  IN  SelectSeq(items, LAMBDA item :
        ZScoreAbove(len * FieldOr0(item) - s, sumsq, len, tn, td))

AllSame(items) == \A i, j \in DOMAIN items : FieldOr0(items[i]) = FieldOr0(items[j])

\* C20 as stated: detect_anomalies returns [] when there are fewer than 3
\* records or all records have the same value, whatever the threshold;
\* otherwise it returns, in input order, exactly the records whose z-score
\* is above the threshold.
C20_AnomaliesByZScore ==
  fx.st = "detect_anomalies" =>
    IF Len(fx.data) < 3 \/ AllSame(fx.data)
      THEN fx.out = <<>>
      ELSE fx.out = ExactAnomalies(fx.data, fx.threshold.num, fx.threshold.den)

\* ---------------------------------------------------------------------------
\* calculate_gini_coefficient
\* ---------------------------------------------------------------------------

\* sorted(values), ascending.
InsertAsc(sorted, v) ==
  LET k == Cardinality({i \in DOMAIN sorted : sorted[i] <= v})
  IN  SubSeq(sorted, 1, k) \o <<v>> \o SubSeq(sorted, k + 1, Len(sorted))

RECURSIVE SortedAsc(_)
SortedAsc(values) ==
  IF values = <<>> THEN <<>>
  ELSE InsertAsc(SortedAsc(SubSeq(values, 1, Len(values) - 1)), values[Len(values)])

\* cumsum += (i + 1) * value, for the first k sorted values: the product and
\* the sum are each rounded.
RECURSIVE FloatCumsum(_, _)
FloatCumsum(sorted_values, k) ==
  IF k = 0 THEN 0
  ELSE FloatRound(FloatCumsum(sorted_values, k - 1)
                    + FloatRound(k * sorted_values[k], 1), 1)

\* A result of a statistics function: the number returned, or the exception
\* that leaves the function.
Returns(r) == [raised |-> "no", r |-> r]

Raises(exc) == [raised |-> exc, r |-> Frac(0, 1)]

\* Both quotients of the last line are between 1 and 2 for non-negative
\* values; there the floats are the multiples of 2^-(MantissaBits - 1), so
\* each quotient is rounded to such a multiple and their difference is
\* exact.  Dividing by a sum that is 0 raises ZeroDivisionError.
calculate_gini_coefficient(values) ==
  IF Len(values) < 2 THEN Returns(Frac(0, 1))
  ELSE LET sorted_values == SortedAsc(values)
           n      == Len(sorted_values)
           cumsum == FloatCumsum(sorted_values, n)
           divid  == FloatRound(2 * cumsum, 1)
           divis  == FloatRound(n * FloatSum(sorted_values), 1)
           unit   == Pow2(MantissaBits - 1)
       IN  IF divis = 0 THEN Raises("ZeroDivisionError")
           ELSE Returns(Frac(FloatRound(divid * unit, divis)
                               - FloatRound((n + 1) * unit, n), unit))

\* The lists of floats the statistics are computed from.
StatVals == {v \in {0, 12, 14, 22} : FloatRound(v, 1) = v}

ApplyGini ==
  /\ fx = Idle
  /\ \E values \in SeqsUpTo(StatVals, MaxRecords) :
       fx' = [st |-> "calculate_gini_coefficient", values |-> values,
              out |-> calculate_gini_coefficient(values)]
  /\ UNCHANGED <<cachevars, bt, mon, ov>>

\* calculate_price_change(current, previous)
calculate_price_change(current, previous) ==
  IF previous # 0 THEN Returns(Frac((current - previous) * 100, previous))
  ELSE Returns(Frac(0, 1))

\* A candle of OHLCV data: its "close" and "volume".
Candles(closes, volumes) == {[close |-> c, volume |-> v] : c \in closes, v \in volumes}

\* calculate_volume_weighted_price: the sums are float sums, the quotient is
\* given exactly.
calculate_volume_weighted_price(ohlcv_data) ==
  IF ohlcv_data = <<>> THEN Returns(Frac(0, 1))
  ELSE LET total_volume == FloatSum([i \in DOMAIN ohlcv_data |-> ohlcv_data[i].volume])
           vwap == FloatSum([i \in DOMAIN ohlcv_data |->
                               FloatRound(ohlcv_data[i].close * ohlcv_data[i].volume, 1)])
       IN  IF total_volume = 0 THEN Returns(Frac(0, 1))
           ELSE Returns(Frac(vwap, total_volume))

\* Rounding and summing of numbers of either sign.
SignedRound(num, den) ==
  IF num < 0 THEN -FloatRound(-num, den) ELSE FloatRound(num, den)

RECURSIVE SignedSum(_)
SignedSum(values) ==
  IF values = <<>> THEN 0
  ELSE SignedRound(SignedSum(SubSeq(values, 1, Len(values) - 1)) + values[Len(values)], 1)

\* The returns (curr_close - prev_close) / prev_close of the candles whose
\* previous close is positive, as floats counted in units of
\* 2^-(MantissaBits - 1).
RECURSIVE ReturnsOf(_)
ReturnsOf(closes) ==
  IF Len(closes) < 2 THEN <<>>
  ELSE LET front == SubSeq(closes, 1, Len(closes) - 1)
           prev_close == closes[Len(closes) - 1]
           curr_close == closes[Len(closes)]
       IN  IF prev_close > 0
             THEN Append(ReturnsOf(front),
                         SignedRound((curr_close - prev_close) * Pow2(MantissaBits - 1),
                                     prev_close))
             ELSE ReturnsOf(front)

\* calculate_volatility returns 100 times the square root of the variance
\* of the returns; the number given here is the variance, which is 0
\* exactly when the result is.
calculate_volatility(closes) ==
  IF Len(closes) < 2 THEN Returns(Frac(0, 1))
  ELSE LET returns == ReturnsOf(closes) IN
       IF returns = <<>> THEN Returns(Frac(0, 1))
       ELSE LET mean_return == SignedRound(SignedSum(returns), Len(returns))
                devs == [i \in DOMAIN returns |-> returns[i] - mean_return]
            IN  Returns(Frac(SumSquares(devs), Len(returns)))

RECURSIVE SumProducts(_, _)
SumProducts(xs, ys) ==
  IF xs = <<>> THEN 0 ELSE xs[1] * ys[1] + SumProducts(Tail(xs), Tail(ys))

\* calculate_correlation returns numerator / sqrt(denominator1 *
\* denominator2); the number given here is the numerator over the product
\* of the denominators, which is 0 exactly when the result is.
calculate_correlation(data1, data2) ==
  IF Len(data1) # Len(data2) \/ Len(data1) < 2 THEN Returns(Frac(0, 1))
  ELSE LET mean1 == FloatRound(FloatSum(data1), Len(data1))
           mean2 == FloatRound(FloatSum(data2), Len(data2))
           dx == [i \in DOMAIN data1 |-> data1[i] - mean1]
           dy == [i \in DOMAIN data2 |-> data2[i] - mean2]
           numerator == SumProducts(dx, dy)
           denominator1 == SumSquares(dx)
           denominator2 == SumSquares(dy)
       IN  IF denominator1 = 0 \/ denominator2 = 0 THEN Returns(Frac(0, 1))
           ELSE Returns(Frac(numerator, denominator1 * denominator2))

ApplyPriceChange ==
  /\ fx = Idle
  /\ \E current \in StatVals : \E previous \in StatVals :
       fx' = [st |-> "calculate_price_change", current |-> current,
              previous |-> previous,
              out |-> calculate_price_change(current, previous)]
  /\ UNCHANGED <<cachevars, bt, mon, ov>>

ApplyVwap ==
  /\ fx = Idle
  /\ \E ohlcv_data \in SeqsUpTo(Candles({12, 14}, StatVals), MaxLen) :
       fx' = [st |-> "calculate_volume_weighted_price", ohlcv_data |-> ohlcv_data,
              out |-> calculate_volume_weighted_price(ohlcv_data)]
  /\ UNCHANGED <<cachevars, bt, mon, ov>>

ApplyVolatility ==
  /\ fx = Idle
  /\ \E closes \in SeqsUpTo(StatVals, MaxRecords) :
       fx' = [st |-> "calculate_volatility", closes |-> closes,
              out |-> calculate_volatility(closes)]
  /\ UNCHANGED <<cachevars, bt, mon, ov>>

ApplyCorrelation ==
  /\ fx = Idle
  /\ \E data1 \in SeqsUpTo(StatVals, MaxLen) : \E data2 \in SeqsUpTo(StatVals, MaxLen) :
       fx' = [st |-> "calculate_correlation", data1 |-> data1, data2 |-> data2,
              out |-> calculate_correlation(data1, data2)]
  /\ UNCHANGED <<cachevars, bt, mon, ov>>

NextStats ==
  \/ ApplyGini
  \/ ApplyPriceChange
  \/ ApplyVwap
  \/ ApplyVolatility
  \/ ApplyCorrelation
  \/ ApplyDetect

StatsSpec == Quiet /\ [][NextStats]_vars

RECURSIVE RankWeightedSum(_, _)
RankWeightedSum(sorted_values, k) ==
  IF k = 0 THEN 0 ELSE k * sorted_values[k] + RankWeightedSum(sorted_values, k - 1)

RECURSIVE SumOf(_)
SumOf(values) == IF values = <<>> THEN 0 ELSE values[1] + SumOf(Tail(values))

\* r = (2 * sum(i * v_i)) / (n * sum(v)) - (n + 1) / n, with both sides
\* multiplied by the denominators.
IsGiniOf(r, values) ==
  LET n == Len(values)
      c == RankWeightedSum(SortedAsc(values), n)
      t == SumOf(values)
  IN  t # 0 /\ r.num * n * t = (2 * c - (n + 1) * t) * r.den

\* C21 as stated: calculate_gini_coefficient returns 0 for the empty list,
\* for a one-element list and for n >= 2 equal positive values, and for
\* every other list the value of the rank-weighted formula.
C21_GiniValue ==
  fx.st = "calculate_gini_coefficient" =>
    /\ fx.out.raised = "no"
    /\ IF \/ Len(fx.values) < 2
          \/ \A i \in DOMAIN fx.values : fx.values[i] = fx.values[1] /\ fx.values[i] > 0
         THEN fx.out.r.num = 0
         ELSE IsGiniOf(fx.out.r, fx.values)

Same(values) == \A i, j \in DOMAIN values : values[i] = values[j]

\* The exact returns of the candles with a positive previous close are all
\* equal: r_i = r_j, with both sides multiplied by the previous closes.
SameReturns(closes) ==
  \A i, j \in 2..Len(closes) :
    (closes[i - 1] > 0 /\ closes[j - 1] > 0) =>
      (closes[i] - closes[i - 1]) * closes[j - 1] = (closes[j] - closes[j - 1]) * closes[i - 1]

\* The input of the function applied is degenerate: empty, too few samples,
\* zero variance or a zero denominator.
Degenerate ==
  \/ fx.st = "calculate_price_change" /\ fx.previous = 0
  \/ /\ fx.st = "calculate_volume_weighted_price"
     /\ SumOf([i \in DOMAIN fx.ohlcv_data |-> fx.ohlcv_data[i].volume]) = 0
  \/ fx.st = "calculate_volatility" /\ (Len(fx.closes) < 2 \/ SameReturns(fx.closes))
  \/ fx.st = "detect_anomalies" /\ (Len(fx.data) < 3 \/ AllSame(fx.data))
  \/ /\ fx.st = "calculate_correlation"
     /\ (Len(fx.data1) # Len(fx.data2) \/ Len(fx.data1) < 2
           \/ Same(fx.data1) \/ Same(fx.data2))
  \/ /\ fx.st = "calculate_gini_coefficient"
     /\ (Len(fx.values) < 2 \/ SumOf(fx.values) = 0)

\* The function applied returned 0 or the empty list.
Neutral ==
  IF fx.st = "detect_anomalies" THEN fx.out = <<>>
  ELSE fx.out.raised = "no" /\ fx.out.r.num = 0

\* C22 as stated: on a degenerate input each of the six statistics
\* functions returns the neutral value and does not fail with an error.
C22_DegenerateInputNeutral == Degenerate => Neutral

\* ---------------------------------------------------------------------------
\* get_nested_value
\* ---------------------------------------------------------------------------

MaxPath == 4

\* JSON values: a dict with its items, a list with its elements, a string.
Dict(map) == [ty |-> "dict", map |-> map]

List(elems) == [ty |-> "list", elems |-> elems]

StrVal(s) == [ty |-> "string", s |-> s]

\* The segments of path.split('.'): a name, or digits (a segment for which
\* seg.isdigit() holds) with the number they spell.
Name(k) == [isdigit |-> FALSE, k |-> k, index |-> 0]

Digits(i) == [isdigit |-> TRUE, k |-> "", index |-> i]

Segments == {Name("tokens"), Name("symbol"), Name("pool"), Digits(0), Digits(1)}

Paths == UNION {[1..k -> Segments] : k \in 1..MaxPath}

TokenA == Dict([k \in {"symbol"} |-> StrVal("AAA")])

TokenB == Dict([k \in {"symbol"} |-> StrVal("BBB")])

\* The objects the paths are looked up in.
Objects ==
  { Dict([k \in {"tokens"} |-> List(<<TokenA>>)]),
    Dict([k \in {"tokens"} |-> List(<<>>)]),
    Dict([k \in {"tokens"} |-> TokenA]),
    Dict([k \in {"pool"} |-> Dict([j \in {"tokens"} |-> List(<<TokenA, TokenB>>)])]),
    Dict([k \in {"symbol"} |-> StrVal("AAA")]),
    Dict([k \in {} |-> PyNone]),
    PyNone }

\* current.get(key)
DictGet(current, k) == IF k \in DOMAIN current.map THEN current.map[k] ELSE PyNone

\* The loop over the keys.  Its first test returns None for every current
\* that is not a dict, a list included, before the segment is looked at.
RECURSIVE Walk(_, _)
Walk(current, keys) ==
  IF keys = <<>> THEN current
  ELSE IF current.ty # "dict" THEN PyNone
  ELSE LET seg == Head(keys) IN
       IF seg.isdigit
         THEN IF current.ty = "list" /\ seg.index < Len(current.elems)
                THEN Walk(current.elems[seg.index + 1], Tail(keys))
                ELSE PyNone
         ELSE Walk(DictGet(current, seg.k), Tail(keys))

\* not obj or not isinstance(obj, dict)
get_nested_value(obj, path) ==
  IF obj.ty # "dict" \/ DOMAIN obj.map = {} THEN PyNone ELSE Walk(obj, path)

ApplyNested ==
  /\ fx = Idle
  /\ \E obj \in Objects : \E path \in Paths :
       fx' = [st |-> "get_nested_value", obj |-> obj, path |-> path,
              out |-> get_nested_value(obj, path)]
  /\ UNCHANGED <<cachevars, bt, mon, ov>>

NextNested == ApplyNested

NestedSpec == Quiet /\ [][NextNested]_vars

\* What the path designates: a name selects the item of a mapping, digits
\* k select element k of a sequence; None when the item is missing, the
\* value has the wrong shape or the index is out of bounds.
RECURSIVE Designated(_, _)
Designated(current, keys) ==
  IF keys = <<>> THEN current
  ELSE LET seg == Head(keys) IN
       IF seg.isdigit
         THEN IF current.ty = "list" /\ seg.index < Len(current.elems)
                THEN Designated(current.elems[seg.index + 1], Tail(keys))
                ELSE PyNone
         ELSE IF current.ty = "dict"
                THEN Designated(DictGet(current, seg.k), Tail(keys))
                ELSE PyNone

\* C23 as stated: get_nested_value returns what the dot-separated path
\* designates in the object, numeric segments indexing into sequences, and
\* None when a segment is missing, of the wrong shape or out of bounds.
C23_NestedPathResolved ==
  fx.st = "get_nested_value" => fx.out = Designated(fx.obj, fx.path)

\* ---------------------------------------------------------------------------
\* The cache after sequential fetches
\* ---------------------------------------------------------------------------

InProgress(p) == pc[p] \notin {"idle", "done", "raised"}

\* C24: in sequential mode, between calls, the cache file of a key that
\* some call has written holds exactly the payload that the successful
\* attempt of the last such call parsed, and that call's request has this
\* key; the file of a key that no call has written is as it was at the
\* start, or removed.  A call that returns the failure result has made all
\* its attempts and leaves the key without a file or with the file the call
\* started with.  The fetch that follows a failed fetch of the same key
\* does not read the cache: it goes to the transport attempts.
C24_CacheHoldsFetchedPayloads ==
  /\ (\A p \in Procs : ~InProgress(p)) =>
       \A k \in Keys :
         IF lastDone[k] # None
           THEN /\ lastDone[k] \in Payloads
                /\ file[k].ex /\ file[k].bytes = Serialize(lastDone[k])
                /\ CacheKey(wroteReq[k].endpoint, wroteReq[k].params) = k
           ELSE file[k] \in InitFiles
  /\ \A p \in Procs :
       /\ (pc[p] = "done" /\ result[p].tag = "error") =>
            /\ sent[p] = retries
            /\ file[key[p]] \in {Absent, startFile[p]}
       /\ (InProgress(p) /\ failed[key[p]]) => pc[p] \notin {"open_r", "load"}

\* A fetch that follows a failed fetch of its key is at its first transport
\* attempt.
C24_Witness ==
  /\ pc[1] = "attempt" /\ sent[1] = 0
  /\ failed[key[1]]
  /\ calls = 2

----------------------------------------------------------------------------
\* The concurrent-mode fetch and the cache store.

\* Before the concurrent helpers run, sequential fetches may have left
\* entries: the file a successful api_request writes for a key, which is
\* within the TTL from then on.
Stored ==
  /\ bt = Idle /\ mon = Idle
  /\ \E k \in Keys, d \in Payloads :
       file' = [file EXCEPT ![k] = File(Serialize(d), now)]
  /\ UNCHANGED <<now, ticks, calls, pc, req, key, tnow, result, lastDone, wroteReq,
                 locals, hist, failed>>
  /\ UNCHANGED others

\* One batch helper or the monitor at a time.
NextAsync ==
  \/ Stored
  \/ mon = Idle /\ NextGather
  \/ bt = Idle /\ NextMonitor

AsyncSpec == Init /\ [][NextAsync]_vars

\* The transport calls made for the requests of a gather: none while the
\* request has not run, one once it has an outcome.
OneAttemptEach(slot, tries) ==
  \A i \in DOMAIN slot :
    tries[i] = IF slot[i] \in {Pending, Cancelled} THEN 0 ELSE 1

\* C25: async_api_request never reads or writes the cache store and makes
\* exactly one transport attempt per request, with no retry and no backoff:
\* every step of a batch helper or of the monitor leaves every cache file and
\* the attempts and sleeps of the retry loop unchanged, and every request that has an
\* outcome made exactly one transport call and carries the outcome of that
\* call, also when the cache holds a fresh entry for its key.
C25_AsyncBypassesCache ==
  /\ [][(bt' # bt \/ mon' # mon) => file' = file /\ waits' = waits /\ sent' = sent]_vars
  /\ [](bt # Idle =>
          /\ OneAttemptEach(bt.slot, bt.tries)
          /\ \A i \in DOMAIN bt.slot :
               bt.slot[i] # Pending => bt.slot[i] \in TaskOutcomes(bt.args[i]))
  /\ [](mon # Idle =>
          /\ OneAttemptEach(mon.slot, mon.tries)
          /\ \A i \in DOMAIN mon.slot :
               mon.slot[i] \notin {Pending, Cancelled}
                 => mon.slot[i] \in TaskOutcomes(mon.addrs[i]))

\* A batch has returned; the request of one of its slots had a fresh cache
\* entry and still went to the transport, which failed.
C25_Witness ==
  /\ bt # Idle /\ bt.st = "returned"
  /\ \E i \in DOMAIN bt.slot :
       /\ Hit(file[KeyOfName(bt.args[i])], now)
       /\ bt.tries[i] = 1
       /\ IsExc(bt.slot[i])

----------------------------------------------------------------------------
\* The largest z-score of a small input.

\* The deviations of the values from their exact mean, times the number of
\* values: with s the sum, the deviation of v is (len * v - s) / len.
ExactDevs(items) ==
  LET s == SumVolumes([i \in DOMAIN items |-> Num(FieldOr0(items[i]))])
  IN  [i \in DOMAIN items |-> Len(items) * FieldOr0(items[i]) - s]

\* z <= bn / bd for every record, z being the exact z-score: with D the
\* deviations times n, z^2 is n * D_i^2 / sum(D^2).
ZScoresAtMost(items, bn, bd) ==
  LET devs == ExactDevs(items)
  IN  \A i \in DOMAIN items :
        Len(items) * devs[i] * devs[i] * bd * bd <= bn * bn * SumSquares(devs)

====
